---- MODULE Spec2Model ----
(***************************************************************************)
(* compoctl: a wrapper around docker-compose that adds the apply, backup   *)
(* and restore commands (src/compoctl.py).                                 *)
(*                                                                         *)
(* A Python string is modelled as a sequence of "characters"; a character  *)
(* is either a separator ("/", ":", " ", "'", "=", "_") or a run of        *)
(* ordinary characters written as one TLA+ string ("backup", "pgdata").    *)
(* "./backup/db:/backup" is <<".", "/", "backup", "/", "db", ":", "/",     *)
(* "backup">>.  Substring tests, split() and shlex.split() are computed on *)
(* that representation.                                                    *)
(***************************************************************************)
EXTENDS Naturals, Sequences, FiniteSets, TLC

VARIABLES
    plan,       \* the command lines the operator still has to type
    project,    \* the compose configuration of the project (services in declared order)
    running,    \* the containers of the project: service name -> image
    fs,         \* the file system: path -> [kind, data]
    command,    \* console_script.command of the running process
    options,    \* console_script.options
    args,       \* console_script.args
    pc,         \* the position of the running process in its handler
    calls,      \* every external effect of the running process, in order
    images,     \* backup(): the discovery map service -> image
    cids,       \* backup(): the container ids still to inspect
    cfg,        \* backup()/restore(): the configuration being worked on
    idx,        \* the index of the current step / service of the loop
    vidx,       \* restore(): the index of the current volume of the service
    ran,        \* backup()/restore(): whether a labelled command ran
    outcome,    \* "none" while running, then "ok" or "failed"
    error,      \* the exception that ended the process, "" if none
    previous,   \* the command, outcome and error of the process that ran before this one
    cmdline     \* parser.argv_all: the command line of the running process

vars == <<plan, project, running, fs, command, options, args, pc, calls,
          images, cids, cfg, idx, vidx, ran, outcome, error, previous, cmdline>>

(***************************************************************************)
(* Bounds.                                                                 *)
(***************************************************************************)
MaxServices == 2

(***************************************************************************)
(* Strings.                                                                *)
(***************************************************************************)
S(x) == <<x>>

StartsWith(s, p) == Len(s) >= Len(p) /\ SubSeq(s, 1, Len(p)) = p

\* Python's `pat in s` on strings.
Contains(s, pat) ==
    \E i \in 1..(Len(s) + 1) :
        i + Len(pat) - 1 <= Len(s) /\ SubSeq(s, i, i + Len(pat) - 1) = pat

RECURSIVE SplitAcc(_, _, _, _)
SplitAcc(s, c, cur, out) ==
    IF s = <<>> THEN Append(out, cur)
    ELSE IF Head(s) = c THEN SplitAcc(Tail(s), c, <<>>, Append(out, cur))
    ELSE SplitAcc(Tail(s), c, Append(cur, Head(s)), out)

\* Python's s.split(c) for a one-character separator.
Split(s, c) == SplitAcc(s, c, <<>>, <<>>)

Last(q) == q[Len(q)]

\* Python's sep.join(parts).
RECURSIVE Join(_, _)
Join(sep, parts) ==
    IF parts = <<>> THEN <<>>
    ELSE IF Len(parts) = 1 THEN parts[1]
    ELSE parts[1] \o sep \o Join(sep, Tail(parts))

(***************************************************************************)
(* shlex.split (POSIX mode) on the characters the labels use: a space      *)
(* separates words outside quotes, a single quote opens and closes a       *)
(* quoted part, an unclosed quote raises ValueError.                       *)
(***************************************************************************)
RECURSIVE ShlexAcc(_, _, _, _, _)
ShlexAcc(s, cur, started, quoted, out) ==
    IF s = <<>> THEN
        IF quoted THEN [ok |-> FALSE, words |-> <<>>]
        ELSE [ok |-> TRUE, words |-> IF started THEN Append(out, cur) ELSE out]
    ELSE IF quoted THEN
        IF Head(s) = "'" THEN ShlexAcc(Tail(s), cur, TRUE, FALSE, out)
        ELSE ShlexAcc(Tail(s), Append(cur, Head(s)), TRUE, TRUE, out)
    ELSE IF Head(s) = "'" THEN ShlexAcc(Tail(s), cur, TRUE, TRUE, out)
    ELSE IF Head(s) = " " THEN
        ShlexAcc(Tail(s), <<>>, FALSE, FALSE, IF started THEN Append(out, cur) ELSE out)
    ELSE ShlexAcc(Tail(s), Append(cur, Head(s)), TRUE, FALSE, out)

shlex_split(s) == ShlexAcc(s, <<>>, FALSE, FALSE, <<>>)

(***************************************************************************)
(* The file system.  A path is resolved against the working directory to   *)
(* the sequence of its components; fs maps the existing paths to           *)
(* [kind |-> "dir" | "file", data |-> content].                            *)
(***************************************************************************)
getcwd == <<"/", "home", "/", "proj">>

RECURSIVE Normalise(_, _)
Normalise(comps, acc) ==
    IF comps = <<>> THEN acc
    ELSE IF Head(comps) = <<>> \/ Head(comps) = <<".">> THEN Normalise(Tail(comps), acc)
    ELSE IF Head(comps) = <<"..">> THEN
        Normalise(Tail(comps), IF acc = <<>> THEN acc ELSE SubSeq(acc, 1, Len(acc) - 1))
    ELSE Normalise(Tail(comps), Append(acc, Head(comps)))

Resolve(path) ==
    IF path # <<>> /\ Head(path) = "/" THEN Normalise(Split(path, "/"), <<>>)
    ELSE Normalise(Split(getcwd, "/") \o Split(path, "/"), <<>>)

exists(path) == Resolve(path) \in DOMAIN fs

IsPrefix(p, q) == Len(p) <= Len(q) /\ SubSeq(q, 1, Len(p)) = p

Dir == [kind |-> "dir", data |-> <<>>]
File(content) == [kind |-> "file", data |-> content]

\* os.makedirs: the directory and its missing parents.
makedirs(f, path) ==
    LET node == Resolve(path)
        news == {SubSeq(node, 1, n) : n \in 0..Len(node)} \ DOMAIN f
    IN  [p \in DOMAIN f \cup news |-> IF p \in DOMAIN f THEN f[p] ELSE Dir]

\* open(path, 'w+').write(content)
write(f, path, content) ==
    [p \in DOMAIN f \cup {Resolve(path)} |->
        IF p = Resolve(path) THEN File(content) ELSE f[p]]

\* shutil.rmtree of an existing directory: it and everything below it.
rmtree(f, path) ==
    [p \in {q \in DOMAIN f : ~IsPrefix(Resolve(path), q)} |-> f[p]]

(***************************************************************************)
(* The compose configuration: cfg['services'] is a sequence of services in *)
(* declared order, each [name, image, labels, volumes]; labels maps the    *)
(* label keys the service declares to their strings.                       *)
(***************************************************************************)
Names == {"app", "db", "web"}

BackupCmdKey == "io.yourlabs.backup.cmd"
RestoreCmdKey == "io.yourlabs.restore.cmd"

\* service.get('labels', {}).get(key, None), and Python's truth of the result:
\* None and '' are both false.
LabelGet(service, key) ==
    IF key \in DOMAIN service.labels THEN service.labels[key] ELSE <<>>

ConfiguredImage(n) == <<n, ":", "latest">>
RunningImage(n) == <<n, ":", "v1">>

Tier == [tier |-> <<"x">>]
Lbl(k, v) == [x \in {k} |-> v]

Service(n, l, v) == [name |-> n, image |-> ConfiguredImage(n), labels |-> l, volumes |-> v]

BackupMount(n) == <<".", "/", "backup", "/", n, ":", "/", "backup">>
DataMount == <<".", "/", "data", ":", "/", "var", "/", "lib", "/", "db">>
NamedMount(v) == v \o <<":", "/", "var", "/", "lib">>
StaticMount == <<".", "/", "static", ":", "/", "static">>

\* The services a project may declare under each name.
Variants(n) ==
    IF n = "app" THEN
      { Service(n, Tier, <<DataMount>>),
        Service(n, Tier @@ Lbl(BackupCmdKey, <<"tar", " ", "cf", " ", "/backup/app.tar">>)
                     @@ Lbl(RestoreCmdKey, <<"tar", " ", "xf", " ", "/backup/app.tar">>),
                <<getcwd \o <<":", "/", "app">>, BackupMount(n)>>),
        Service(n, Tier @@ Lbl(RestoreCmdKey, <<"sh", " ", "-c", " ", "'", "load", " ", "x", "'">>),
                <<DataMount, NamedMount(<<"appdata">>)>>) }
    ELSE IF n = "db" THEN
      { Service(n, Tier @@ Lbl(BackupCmdKey, <<"pg_dumpall", " ", "-f", " ", "/backup/data.dump">>)
                     @@ Lbl(RestoreCmdKey, <<"psql", " ", "-f", " ", "/backup/data.dump">>),
                <<NamedMount(<<"pgdata">>), BackupMount(n)>>),
        Service(n, Tier @@ Lbl(BackupCmdKey, <<>>)
                     @@ Lbl(RestoreCmdKey, <<"psql", " ", " ", "-q">>),
                <<BackupMount(n), DataMount>>),
        Service(n, Tier @@ Lbl(BackupCmdKey, <<"pg_dumpall">>)
                     @@ Lbl(RestoreCmdKey, <<"echo", " ", "'", "oops">>),
                <<NamedMount(<<"db", "backup">>)>>) }
    ELSE
      { Service(n, Tier, <<>>),
        Service(n, Tier @@ Lbl(BackupCmdKey, <<"tar", " ", "cf", " ", "'", "/backup/my", " ", "web.tar", "'">>)
                     @@ Lbl(RestoreCmdKey, <<>>),
                <<NamedMount(<<"uploads">>), StaticMount>>),
        Service(n, Tier @@ Lbl(BackupCmdKey, <<"true">>) @@ Lbl(RestoreCmdKey, <<"true">>),
                <<<<"/", "srv", "/", "old", "backup", ":", "/", "old">>, NamedMount(<<"uploads">>)>>) }

\* Every ordering of up to MaxServices distinctly named services.
RECURSIVE Configs(_)
Configs(n) ==
    IF n = 0 THEN {<<>>}
    ELSE LET shorter == Configs(n - 1)
         IN  shorter \cup
             { Append(c, s) : c \in {d \in shorter : Len(d) = n - 1},
                              s \in UNION {Variants(m) : m \in Names} }

DistinctNames(c) == \A i, j \in 1..Len(c) : i # j => c[i].name # c[j].name

Projects == {[services |-> c] : c \in {d \in Configs(MaxServices) : DistinctNames(d)}}

ServiceNames(c) == {c.services[i].name : i \in 1..Len(c.services)}

ServiceOf(c, n) == c.services[CHOOSE i \in 1..Len(c.services) : c.services[i].name = n]

(***************************************************************************)
(* yaml.dump writes mapping keys sorted (sort_keys defaults to True), so   *)
(* the services of a dumped configuration are in alphabetical order of     *)
(* their names; yaml.safe_load keeps the order of the document.            *)
(***************************************************************************)
Rank(n) == IF n = "app" THEN 1 ELSE IF n = "db" THEN 2 ELSE 3

yaml_dump(c) ==
    [services |-> SortSeq(c.services, LAMBDA a, b : Rank(a.name) < Rank(b.name))]

yaml_safe_load(text) == text

(***************************************************************************)
(* Well-known paths.                                                       *)
(***************************************************************************)
BackupDir == <<".", "/", "backup">>
RestorePath == <<".", "/", "backup", "/", "docker-compose._restore.yml">>
LocalRestore == <<"docker-compose._restore.yml">>
LocalRestoreOpt == <<".", "/", "docker-compose._restore.yml">>

(***************************************************************************)
(* ConsoleScript: the commands it knows, and the parse of the command line *)
(* into options (before the command), command and args.                    *)
(***************************************************************************)
compose_commands ==
    {"build", "bundle", "config", "create", "down", "events", "exec", "images",
     "kill", "logs", "pause", "port", "ps", "pull", "push", "restart", "rm",
     "run", "scale", "start", "stop", "top", "unpause", "up", "version"}

keys == {S(k) : k \in {"apply", "backup", "restore"} \cup compose_commands}

\* cli2's parser.argv: the words of the command line.
parser_argv(argv_all) == {argv_all[i] : i \in 1..Len(argv_all)}

IsUrl(name) == StartsWith(name, <<"http">>) /\ Contains(name, <<":", "/", "/">>)

\* get(name) of compose_argv_handle: a URL is fetched and saved under its basename.
get(name) == IF IsUrl(name) THEN Last(Split(name, "/")) ELSE name

ArgvStart ==
    [options |-> <<>>, command |-> S("help"), args |-> <<>>, files |-> <<>>,
     fetched |-> {}, skip |-> FALSE, command_found |-> FALSE, error |-> ""]

RECURSIVE ArgvLoop(_, _, _)
ArgvLoop(argv_all, num, st) ==
    IF num > Len(argv_all) \/ st.error # "" THEN st
    ELSE LET arg == argv_all[num]
             more == num + 1 <= Len(argv_all)
             next == IF more THEN argv_all[num + 1] ELSE <<>>
         IN
         IF st.skip THEN ArgvLoop(argv_all, num + 1, [st EXCEPT !.skip = FALSE])
         ELSE IF arg = S("-f") THEN
            IF ~more THEN [st EXCEPT !.error = "IndexError"]
            ELSE ArgvLoop(argv_all, num + 1,
                    [st EXCEPT !.options = @ \o <<S("-f"), get(next)>>,
                               !.files = Append(@, next),
                               !.fetched = @ \cup (IF IsUrl(next) THEN {get(next)} ELSE {}),
                               !.skip = TRUE])
         ELSE IF StartsWith(arg, S("--file")) THEN
            IF Contains(arg, S("=")) THEN
                ArgvLoop(argv_all, num + 1,
                    [st EXCEPT !.options = @ \o <<S("-f"), get(Split(arg, "=")[2])>>,
                               !.fetched = @ \cup (IF IsUrl(Split(arg, "=")[2])
                                                   THEN {get(Split(arg, "=")[2])} ELSE {})])
            ELSE IF ~more THEN [st EXCEPT !.error = "IndexError"]
            ELSE ArgvLoop(argv_all, num + 1,
                    [st EXCEPT !.options = @ \o <<S("-f"), get(next)>>,
                               !.fetched = @ \cup (IF IsUrl(next) THEN {get(next)} ELSE {}),
                               !.skip = TRUE])
         ELSE IF arg \in keys /\ ~st.command_found THEN
            ArgvLoop(argv_all, num + 1, [st EXCEPT !.command = arg, !.command_found = TRUE])
         ELSE IF ~st.command_found THEN
            ArgvLoop(argv_all, num + 1, [st EXCEPT !.options = Append(@, arg)])
         ELSE IF arg \in parser_argv(argv_all) THEN
            ArgvLoop(argv_all, num + 1, [st EXCEPT !.args = Append(@, arg)])
         ELSE ArgvLoop(argv_all, num + 1, st)

compose_argv_handle(argv_all) == ArgvLoop(argv_all, 1, ArgvStart)

compose_cmd(cargs) == <<S("docker-compose")>> \o options \o cargs

(***************************************************************************)
(* The orchestrator (docker-compose) as the program sees it: every         *)
(* invocation ends with some exit code; `down` that exits 0 leaves no      *)
(* container of the project, `up` that exits 0 leaves the selected         *)
(* services of the effective configuration running their images and has    *)
(* created the missing host directories of their bind mounts.              *)
(***************************************************************************)
FileOptions(opts) == {opts[i + 1] : i \in {j \in 1..(Len(opts) - 1) : opts[j] = S("-f")}}

UsesRestoreFile(opts) == \E f \in FileOptions(opts) : Resolve(f) = Resolve(LocalRestore)

ExitCodes(f, opts) ==
    IF UsesRestoreFile(opts) /\ Resolve(LocalRestore) \notin DOMAIN f THEN {1} ELSE {0, 1}

Merge(base, over) ==
    LET on == ServiceNames(over)
        bn == ServiceNames(base)
    IN  [services |->
            [i \in 1..Len(base.services) |->
                IF base.services[i].name \in on
                THEN ServiceOf(over, base.services[i].name)
                ELSE base.services[i]]
            \o SelectSeq(over.services, LAMBDA s : s.name \notin bn)]

EffectiveConfig(f, opts) ==
    IF ~UsesRestoreFile(opts) THEN project
    ELSE IF FileOptions(opts) = {LocalRestoreOpt}
         THEN yaml_safe_load(f[Resolve(LocalRestore)].data)
         ELSE Merge(project, yaml_safe_load(f[Resolve(LocalRestore)].data))

HostPart(volume) == Split(volume, ":")[1]

IsBindMount(volume) == Head(HostPart(volume)) \in {".", "/"}

Selected(eff, cargs) ==
    LET named == {n \in ServiceNames(eff) : \E i \in 2..Len(cargs) : cargs[i] = S(n)}
    IN  IF named # {} THEN named ELSE ServiceNames(eff)

OrchestratorRunning(f, opts, cargs, rc) ==
    IF rc # 0 THEN running
    ELSE IF cargs[1] = S("down") THEN [n \in {} |-> <<>>]
    ELSE IF cargs[1] = S("up") THEN
        LET eff == EffectiveConfig(f, opts)
            sel == Selected(eff, cargs)
        IN  [n \in DOMAIN running \cup sel |->
                IF n \in sel THEN ServiceOf(eff, n).image ELSE running[n]]
    ELSE running

RECURSIVE MakeAll(_, _)
MakeAll(f, paths) ==
    IF paths = {} THEN f
    ELSE LET p == CHOOSE q \in paths : TRUE
         IN  MakeAll(makedirs(f, p), paths \ {p})

BindHosts(eff, sel) ==
    UNION { {HostPart(s.volumes[i]) : i \in {j \in 1..Len(s.volumes) : IsBindMount(s.volumes[j])}} :
            s \in {ServiceOf(eff, n) : n \in sel} }

OrchestratorFs(f, opts, cargs, rc) ==
    IF rc = 0 /\ cargs[1] = S("up") THEN
        LET eff == EffectiveConfig(f, opts)
        IN  MakeAll(f, BindHosts(eff, Selected(eff, cargs)))
    ELSE f

\* compose(command, *args): the composed command line is run and awaited; the
\* process object (its returncode) is what the caller gets.
compose(cargs, rc) ==
    /\ rc \in ExitCodes(fs, options)
    /\ calls' = Append(calls, [kind |-> "compose", argv |-> compose_cmd(cargs), rc |-> rc])
    /\ running' = OrchestratorRunning(fs, options, cargs, rc)
    /\ fs' = OrchestratorFs(fs, options, cargs, rc)

\* An effect that is not an orchestrator invocation.
Effect(kind, argv, rc) == [kind |-> kind, argv |-> argv, rc |-> rc]

\* raise: the process ends with a non-zero exit status.
Raise(e) == /\ pc' = "done" /\ outcome' = "failed" /\ error' = e

\* return from the command: the process ends with exit status 0.
Return == /\ pc' = "done" /\ outcome' = "ok" /\ error' = ""

(***************************************************************************)
(* The initial states: a project, its containers, its directory, and the   *)
(* command lines the operator is about to type.                            *)
(***************************************************************************)
EmptyMap == [n \in {} |-> <<>>]

Containers(ns) == [n \in ns |-> RunningImage(n)]

\* for service, image in images.items(): cfg['services'][service]['image'] = image
pin(c, imgs) ==
    [services |->
        [i \in 1..Len(c.services) |->
            IF c.services[i].name \in DOMAIN imgs
            THEN [c.services[i] EXCEPT !.image = imgs[c.services[i].name]]
            ELSE c.services[i]]]

BaseFs ==
    MakeAll(EmptyMap, {getcwd \o <<"/", "data">>, getcwd \o <<"/", "static">>,
                       <<"/", "srv", "/", "old", "backup">>})

\* The directory after an earlier backup of project p with containers r.
BackedUpFs(p, r) ==
    write(MakeAll(BaseFs, {<<".", "/", "backup", "/", n>> : n \in ServiceNames(p)} \cup {BackupDir}),
          RestorePath, yaml_dump(pin(p, r)))

PreOptions == {<<>>, <<S("-f"), S("prod.yml")>>}

PassVerbs == {"up", "down", "logs"}

PassArgs(v) ==
    IF v = "up" THEN {<<>>, <<S("-d")>>, <<S("-d"), S("web")>>}
    ELSE IF v = "logs" THEN {<<>>, <<S("-f")>>, <<S("-f"), S("web")>>, <<S("web"), S("db")>>}
    ELSE {<<>>}

\* The options the operator may give before a passthrough command.
PassPreOptions ==
    PreOptions \cup
    { <<S("-f"), <<"http", ":", "/", "/", "host", "/", "dev.yml">>>>,
      <<<<"--file", "=", "prod.yml">>, S("--verbose")>> }

Line(pre, verb, post) == pre \o <<S(verb)>> \o post

Worlds(p) ==
    {[plan |-> <<Line(pre, "apply", <<>>)>>, running |-> EmptyMap, fs |-> BaseFs] :
        pre \in PreOptions}
    \cup
    UNION {{[plan |-> <<Line(pre, v, post)>>, running |-> EmptyMap, fs |-> BaseFs] :
                pre \in PassPreOptions, post \in PassArgs(v)} : v \in PassVerbs}
    \cup
    {[plan |-> <<Line(pre, "backup", <<>>)>>, running |-> Containers(r), fs |-> f] :
        pre \in PreOptions, r \in SUBSET Names, f \in {BaseFs, BackedUpFs(p, EmptyMap)}}
    \cup
    {[plan |-> <<Line(pre, "restore", <<>>)>>, running |-> Containers(ServiceNames(p)), fs |-> f] :
        pre \in PreOptions,
        f \in {BaseFs, makedirs(BaseFs, BackupDir), BackedUpFs(p, Containers(ServiceNames(p)))}}
    \cup
    {[plan |-> <<Line(pre, "backup", <<>>), Line(pre, "restore", <<>>)>>,
      running |-> Containers(r), fs |-> BaseFs] :
        pre \in PreOptions, r \in SUBSET Names}
    \cup
    {[plan |-> <<Line(<<>>, "restore", <<>>), Line(<<>>, "restore", <<>>)>>,
      running |-> Containers(ServiceNames(p)),
      fs |-> BackedUpFs(p, Containers(ServiceNames(p)))]}

Init ==
    /\ project \in Projects
    /\ \E w \in Worlds(project) :
        /\ plan = w.plan
        /\ running = w.running
        /\ fs = w.fs
    /\ command = "help"
    /\ options = <<>>
    /\ args = <<>>
    /\ pc = "idle"
    /\ calls = <<>>
    /\ images = EmptyMap
    /\ cids = <<>>
    /\ cfg = [services |-> <<>>]
    /\ idx = 1
    /\ vidx = 1
    /\ ran = FALSE
    /\ outcome = "none"
    /\ error = ""
    /\ previous = [command |-> "none", outcome |-> "none", error |-> ""]
    /\ cmdline = <<>>

(***************************************************************************)
(* ConsoleScript.call: a new process parses its command line and enters    *)
(* the command.                                                            *)
(***************************************************************************)
Entry(c) ==
    IF c = "apply" THEN "apply"
    ELSE IF c = "backup" THEN "backup_mkdir"
    ELSE IF c = "restore" THEN "restore_check"
    ELSE IF c \in compose_commands THEN "cmd"
    ELSE "help"

RECURSIVE WriteAll(_, _)
WriteAll(f, names) ==
    IF names = {} THEN f
    ELSE LET n == CHOOSE m \in names : TRUE
         IN  WriteAll(write(f, n, <<>>), names \ {n})

call ==
    /\ pc \in {"idle", "done"}
    /\ plan # <<>>
    /\ plan' = Tail(plan)
    /\ LET st == compose_argv_handle(Head(plan))
       IN  /\ command' = st.command[1]
           /\ options' = st.options
           /\ args' = st.args
           /\ fs' = WriteAll(fs, st.fetched)
           /\ IF st.error # "" THEN Raise(st.error)
              ELSE IF Entry(st.command[1]) = "help" THEN Return
              ELSE /\ pc' = Entry(st.command[1])
                   /\ outcome' = "none"
                   /\ error' = ""
    /\ calls' = <<>>
    /\ images' = EmptyMap
    /\ cids' = <<>>
    /\ cfg' = [services |-> <<>>]
    /\ idx' = 1
    /\ vidx' = 1
    /\ ran' = FALSE
    /\ previous' = [command |-> command, outcome |-> outcome, error |-> error]
    /\ cmdline' = Head(plan)
    /\ UNCHANGED <<project, running>>

(***************************************************************************)
(* apply(): pull, build, down, up -d, logs, ps; the first non-zero return  *)
(* code raises.                                                            *)
(***************************************************************************)
cmds == <<<<S("pull")>>, <<S("build")>>, <<S("down")>>, <<S("up"), S("-d")>>,
          <<S("logs")>>, <<S("ps")>>>>

\* apply() that does not look at the return code.
apply_ignores_returncode ==
    /\ pc = "apply"
    /\ \E rc \in {0, 1} : compose(cmds[idx], rc)
    /\ IF idx = Len(cmds) THEN Return /\ idx' = idx
       ELSE idx' = idx + 1 /\ UNCHANGED <<pc, outcome, error>>
    /\ UNCHANGED <<cmdline, previous, plan, project, command, options, args, images, cids, cfg, vidx, ran>>

apply ==
    /\ pc = "apply"
    /\ \E rc \in {0, 1} :
        /\ compose(cmds[idx], rc)
        /\ IF rc # 0 THEN Raise("Return code: 1") /\ idx' = idx
           ELSE IF idx = Len(cmds) THEN Return /\ idx' = idx
           ELSE /\ idx' = idx + 1
                /\ UNCHANGED <<pc, outcome, error>>
    /\ UNCHANGED <<cmdline, previous, plan, project, command, options, args, images, cids, cfg, vidx, ran>>

(***************************************************************************)
(* A passthrough command: compose(name, *console_script.args); the         *)
(* process object is dropped.                                              *)
(***************************************************************************)
cmd ==
    /\ pc = "cmd"
    /\ \E rc \in {0, 1} : compose(<<S(command)>> \o args, rc)
    /\ Return
    /\ UNCHANGED <<cmdline, previous, plan, project, command, options, args, images, cids, cfg, idx, vidx, ran>>

(***************************************************************************)
(* backup()                                                                *)
(***************************************************************************)
Yield(msg) == Effect("yield", <<S(msg)>>, 0)

Pass == UNCHANGED <<pc, outcome, error>>

\* if not os.path.exists('./backup'): yield ...; os.makedirs('./backup')
backup_mkdir ==
    /\ pc = "backup_mkdir"
    /\ IF exists(BackupDir)
       THEN UNCHANGED <<fs, calls>>
       ELSE /\ fs' = makedirs(fs, BackupDir)
            /\ calls' = calls \o <<Yield("Creating ./backup"), Effect("makedirs", <<BackupDir>>, 0)>>
    /\ pc' = "backup_ps"
    /\ UNCHANGED <<cmdline, previous, plan, project, running, command, options, args, images, cids, cfg,
                   idx, vidx, ran, outcome, error>>

\* The container ids docker-compose ps -q prints, one per line; the output ends
\* with a newline, so the split ends with an empty string.
PsOutput(r) ==
    SortSeq([i \in 1..Cardinality(DOMAIN r) |->
                CHOOSE n \in DOMAIN r : Cardinality({m \in DOMAIN r : Rank(m) < Rank(n)}) = i - 1],
            LAMBDA a, b : Rank(a) < Rank(b)) \o <<"">>

\* cids = subprocess.check_output('docker-compose ps -q', shell=True)...split('\n')
backup_ps ==
    /\ pc = "backup_ps"
    /\ \E rc \in {0, 1} :
        /\ calls' = Append(calls, Effect("check_output",
                        <<<<"docker-compose", " ", "ps", " ", "-q">>>>, rc))
        /\ IF rc # 0 THEN Raise("CalledProcessError") /\ cids' = cids
           ELSE /\ cids' = PsOutput(running)
                /\ pc' = "backup_inspect"
                /\ UNCHANGED <<outcome, error>>
    /\ UNCHANGED <<cmdline, previous, plan, project, running, fs, command, options, args, images, cfg,
                   idx, vidx, ran>>

\* One iteration of `for cid in cids`: docker inspect, then images[service] = image.
backup_inspect ==
    /\ pc = "backup_inspect"
    /\ cids # <<>>
    /\ cids' = Tail(cids)
    /\ IF Head(cids) = "" THEN UNCHANGED <<calls, images, pc, outcome, error>>
       ELSE \E res \in {"ok", "nonzero", "unparseable"} :
            /\ calls' = Append(calls, Effect("check_output",
                            <<<<"docker", " ", "inspect", " ", Head(cids)>>>>,
                            IF res = "nonzero" THEN 1 ELSE 0))
            /\ IF res = "nonzero" THEN Raise("CalledProcessError") /\ images' = images
               ELSE IF res = "unparseable" THEN Raise("JSONDecodeError") /\ images' = images
               ELSE /\ images' = [n \in DOMAIN images \cup {Head(cids)} |->
                                    IF n = Head(cids) THEN running[n] ELSE images[n]]
                    /\ Pass
    /\ UNCHANGED <<cmdline, previous, plan, project, running, fs, command, options, args, cfg, idx, vidx, ran>>

\* ConsoleScript.config: yaml.safe_load(subprocess.check_output(compose_cmd('config')))
config(res) ==
    /\ calls' = Append(calls, Effect("check_output", compose_cmd(<<S("config")>>),
                                     IF res = "nonzero" THEN 1 ELSE 0))
    /\ IF res = "nonzero" THEN Raise("CalledProcessError") /\ cfg' = cfg
       ELSE IF res = "unparseable" THEN Raise("YAMLError") /\ cfg' = cfg
       ELSE cfg' = yaml_safe_load(project)

\* backup() that goes on to the pinning loop whatever the config query gave.
backup_config_goes_on ==
    /\ pc = "backup_inspect"
    /\ cids = <<>>
    /\ \E res \in {"ok", "nonzero", "unparseable"} :
        /\ calls' = Append(calls, Effect("check_output", compose_cmd(<<S("config")>>),
                                         IF res = "nonzero" THEN 1 ELSE 0))
        /\ cfg' = IF res = "ok" THEN yaml_safe_load(project) ELSE [services |-> <<>>]
        /\ pc' = "backup_pin"
        /\ UNCHANGED <<outcome, error>>
    /\ UNCHANGED <<cmdline, previous, plan, project, running, fs, command, options, args, images, cids,
                   idx, vidx, ran>>

\* cfg = console_script.config(), once every container id is inspected.
backup_config ==
    /\ pc = "backup_inspect"
    /\ cids = <<>>
    /\ \E res \in {"ok", "nonzero", "unparseable"} :
        /\ config(res)
        /\ IF res = "ok" THEN pc' = "backup_pin" /\ UNCHANGED <<outcome, error>> ELSE TRUE
    /\ UNCHANGED <<cmdline, previous, plan, project, running, fs, command, options, args, images, cids,
                   idx, vidx, ran>>

\* for service, image in images.items(): cfg['services'][service]['image'] = image
backup_pin ==
    /\ pc = "backup_pin"
    /\ IF DOMAIN images \subseteq ServiceNames(cfg)
       THEN /\ cfg' = pin(cfg, images)
            /\ pc' = "backup_write"
            /\ UNCHANGED <<outcome, error>>
       ELSE Raise("KeyError") /\ cfg' = cfg
    /\ UNCHANGED <<cmdline, previous, plan, project, running, fs, command, options, args, calls, images, cids,
                   idx, vidx, ran>>

\* The snapshot: yaml.dump(cfg) written to ./backup/docker-compose._restore.yml.
backup_write ==
    /\ pc = "backup_write"
    /\ fs' = write(fs, RestorePath, yaml_dump(cfg))
    /\ calls' = calls \o <<Yield("Writing with hard coded images"),
                           Effect("write", <<RestorePath>>, 0)>>
    /\ pc' = "backup_exec"
    /\ idx' = 1
    /\ UNCHANGED <<cmdline, previous, plan, project, running, command, options, args, images, cids, cfg,
                   vidx, ran, outcome, error>>

\* The argument list of the exec of a service's backup command.
backup_argv(name, backup_cmd) == <<S("exec"), S(name), S("sh"), S("-c"), backup_cmd>>

\* backup() that goes on to the next service after a failed backup command.
backup_exec_keeps_going ==
    /\ pc = "backup_exec"
    /\ idx <= Len(cfg.services)
    /\ LET service == cfg.services[idx]
           backup_cmd == LabelGet(service, BackupCmdKey)
       IN  IF backup_cmd = <<>>
           THEN /\ idx' = idx + 1
                /\ UNCHANGED <<calls, running, fs, ran, pc, outcome, error>>
           ELSE \E rc \in {0, 1} :
                /\ compose(backup_argv(service.name, backup_cmd), rc)
                /\ ran' = TRUE
                /\ idx' = idx + 1
                /\ Pass
    /\ UNCHANGED <<cmdline, previous, plan, project, command, options, args, images, cids, cfg, vidx>>

\* One iteration of the loop over cfg['services'].
backup_exec ==
    /\ pc = "backup_exec"
    /\ idx <= Len(cfg.services)
    /\ LET service == cfg.services[idx]
           backup_cmd == LabelGet(service, BackupCmdKey)
       IN  IF backup_cmd = <<>>
           THEN /\ idx' = idx + 1
                /\ UNCHANGED <<calls, running, fs, ran, pc, outcome, error>>
           ELSE \E rc \in {0, 1} :
                /\ compose(backup_argv(service.name, backup_cmd), rc)
                /\ IF rc # 0
                   THEN Raise("Backup exited with non-0 !") /\ UNCHANGED <<idx, ran>>
                   ELSE /\ ran' = TRUE
                        /\ idx' = idx + 1
                        /\ Pass
    /\ UNCHANGED <<cmdline, previous, plan, project, command, options, args, images, cids, cfg, vidx>>

\* if not ran: yield 'No $backup_cmd found: no data backup !'
backup_warn ==
    /\ pc = "backup_exec"
    /\ idx > Len(cfg.services)
    /\ calls' = IF ran THEN calls
                ELSE Append(calls, Yield("No $backup_cmd found: no data backup !"))
    /\ Return
    /\ UNCHANGED <<cmdline, previous, plan, project, running, fs, command, options, args, images, cids, cfg,
                   idx, vidx, ran>>

backup ==
    \/ backup_mkdir \/ backup_ps \/ backup_inspect \/ backup_config
    \/ backup_pin \/ backup_write \/ backup_exec \/ backup_warn

(***************************************************************************)
(* restore()                                                               *)
(***************************************************************************)
\* if not os.path.exists('./backup/docker-compose._restore.yml'): raise
\* restore() that tests for the ./backup directory instead of the snapshot in it.
restore_check_directory ==
    /\ pc = "restore_check"
    /\ IF exists(BackupDir)
       THEN pc' = "restore_copy" /\ UNCHANGED <<outcome, error>>
       ELSE Raise("./backup not found !")
    /\ UNCHANGED <<cmdline, previous, plan, project, running, fs, command, options, args, calls, images, cids,
                   cfg, idx, vidx, ran>>

restore_check ==
    /\ pc = "restore_check"
    /\ IF exists(RestorePath)
       THEN pc' = "restore_copy" /\ UNCHANGED <<outcome, error>>
       ELSE Raise("./backup not found !")
    /\ UNCHANGED <<cmdline, previous, plan, project, running, fs, command, options, args, calls, images, cids,
                   cfg, idx, vidx, ran>>

\* restore() that puts the snapshot copy in front of the operator's options.
restore_copy_prepends ==
    /\ pc = "restore_copy"
    /\ fs' = write(fs, LocalRestore, fs[Resolve(RestorePath)].data)
    /\ calls' = Append(calls, Effect("copyfile", <<RestorePath, LocalRestore>>, 0))
    /\ options' = <<S("-f"), LocalRestoreOpt>> \o options
    /\ pc' = "restore_pull"
    /\ UNCHANGED <<cmdline, previous, plan, project, running, command, args, images, cids, cfg, idx, vidx, ran,
                   outcome, error>>

\* shutil.copyfile(...); console_script.options += ['-f', './docker-compose._restore.yml']
restore_copy ==
    /\ pc = "restore_copy"
    /\ fs' = write(fs, LocalRestore, fs[Resolve(RestorePath)].data)
    /\ calls' = Append(calls, Effect("copyfile", <<RestorePath, LocalRestore>>, 0))
    /\ options' = options \o <<S("-f"), LocalRestoreOpt>>
    /\ pc' = "restore_pull"
    /\ UNCHANGED <<cmdline, previous, plan, project, running, command, args, images, cids, cfg, idx, vidx, ran,
                   outcome, error>>

\* compose('pull')
restore_pull ==
    /\ pc = "restore_pull"
    /\ \E rc \in {0, 1} : compose(<<S("pull")>>, rc)
    /\ pc' = "restore_down"
    /\ UNCHANGED <<cmdline, previous, plan, project, command, options, args, images, cids, cfg, idx, vidx, ran,
                   outcome, error>>

\* restore() that parses the snapshot copy without taking the project down.
restore_down_not_run ==
    /\ pc = "restore_down"
    /\ cfg' = yaml_safe_load(fs[Resolve(LocalRestore)].data)
    /\ ran' = FALSE
    /\ idx' = 1
    /\ vidx' = 1
    /\ pc' = "restore_loop"
    /\ UNCHANGED <<running, fs, calls>>
    /\ UNCHANGED <<cmdline, previous, plan, project, command, options, args, images, cids, outcome, error>>

\* compose('down'), then the snapshot copy is read and parsed.
restore_down ==
    /\ pc = "restore_down"
    /\ \E rc \in {0, 1} : compose(<<S("down")>>, rc)
    /\ cfg' = yaml_safe_load(fs[Resolve(LocalRestore)].data)
    /\ ran' = FALSE
    /\ idx' = 1
    /\ vidx' = 1
    /\ pc' = "restore_loop"
    /\ UNCHANGED <<cmdline, previous, plan, project, command, options, args, images, cids, outcome, error>>

\* project = os.getcwd().split('/')[-1]
project_name == Last(Split(getcwd, "/"))

\* What the loop over service['volumes'] does with one volume.
VolumeAction(volume) ==
    LET parts == Split(volume, ":")
    IN  IF Contains(parts[1], S("backup")) THEN "continue"
        ELSE IF Contains(parts[1], S("/")) THEN "rmtree"
        ELSE "volume_rm"

\* volume = '_'.join([project, name])
VolumeName(name) == Join(S("_"), <<project_name, S(name)>>)

\* A loop that takes a service for labelled when it has either command.
HasAnyCmd(service) ==
    LabelGet(service, RestoreCmdKey) # <<>> \/ LabelGet(service, BackupCmdKey) # <<>>

\* cmd = service.get('labels', {}).get('io.yourlabs.restore.cmd', None); if not cmd: continue
HasRestoreCmd(service) == LabelGet(service, RestoreCmdKey) # <<>>

\* A service without a restore command: continue.
restore_skip ==
    /\ pc = "restore_loop"
    /\ idx <= Len(cfg.services)
    /\ ~HasRestoreCmd(cfg.services[idx])
    /\ idx' = idx + 1
    /\ UNCHANGED <<cmdline, previous, plan, project, running, fs, command, options, args, pc, calls, images,
                   cids, cfg, vidx, ran, outcome, error>>

\* One iteration of `for volume in service.get('volumes', [])`.
restore_volume ==
    /\ pc = "restore_loop"
    /\ idx <= Len(cfg.services)
    /\ HasRestoreCmd(cfg.services[idx])
    /\ vidx <= Len(cfg.services[idx].volumes)
    /\ LET service == cfg.services[idx]
           volume == service.volumes[vidx]
           host == Split(volume, ":")[1]
           todo == VolumeAction(volume)
       IN  IF todo = "continue"
           THEN /\ vidx' = vidx + 1
                /\ UNCHANGED <<fs, calls, pc, outcome, error>>
           ELSE IF todo = "rmtree"
           THEN /\ calls' = Append(calls, Effect("rmtree", <<host>>, 0))
                /\ IF ~exists(host)
                   THEN Raise("FileNotFoundError") /\ UNCHANGED <<fs, vidx>>
                   ELSE IF fs[Resolve(host)].kind # "dir"
                   THEN Raise("NotADirectoryError") /\ UNCHANGED <<fs, vidx>>
                   ELSE /\ fs' = rmtree(fs, host)
                        /\ vidx' = vidx + 1
                        /\ Pass
           ELSE \E rc \in {0, 1} :
                /\ calls' = Append(calls, Effect("docker",
                                <<S("docker"), S("volume"), S("rm"), VolumeName(service.name)>>, rc))
                /\ vidx' = vidx + 1
                /\ UNCHANGED <<fs, pc, outcome, error>>
    /\ UNCHANGED <<cmdline, previous, plan, project, running, command, options, args, images, cids, cfg, idx, ran>>

\* restore() that waits and runs the restore command whatever up -d returned.
restore_up_ignores_returncode ==
    /\ pc = "restore_loop"
    /\ idx <= Len(cfg.services)
    /\ HasRestoreCmd(cfg.services[idx])
    /\ vidx > Len(cfg.services[idx].volumes)
    /\ \E rc \in {0, 1} : compose(<<S("up"), S("-d"), S(cfg.services[idx].name)>>, rc)
    /\ pc' = "restore_sleep"
    /\ UNCHANGED <<outcome, error>>
    /\ UNCHANGED <<cmdline, previous, plan, project, command, options, args, images, cids, cfg, idx, vidx, ran>>

\* p = compose('up', '-d', name), once every volume of the service is handled.
restore_up ==
    /\ pc = "restore_loop"
    /\ idx <= Len(cfg.services)
    /\ HasRestoreCmd(cfg.services[idx])
    /\ vidx > Len(cfg.services[idx].volumes)
    /\ \E rc \in {0, 1} :
        /\ compose(<<S("up"), S("-d"), S(cfg.services[idx].name)>>, rc)
        /\ IF rc # 0 THEN Raise("Start non-0 !")
           ELSE pc' = "restore_sleep" /\ UNCHANGED <<outcome, error>>
    /\ UNCHANGED <<cmdline, previous, plan, project, command, options, args, images, cids, cfg, idx, vidx, ran>>

\* time.sleep(5)
restore_sleep ==
    /\ pc = "restore_sleep"
    /\ calls' = Append(calls, Effect("sleep", <<>>, 0))
    /\ pc' = "restore_exec"
    /\ UNCHANGED <<cmdline, previous, plan, project, running, fs, command, options, args, images, cids, cfg,
                   idx, vidx, ran, outcome, error>>

\* The argument list of the exec of a service's restore command.
restore_argv(name, words) == <<S("exec"), S(name)>> \o words

\* restore() that goes on to the next service after a failed restore command.
restore_exec_keeps_going ==
    /\ pc = "restore_exec"
    /\ LET service == cfg.services[idx]
           split == shlex_split(LabelGet(service, RestoreCmdKey))
       IN  IF ~split.ok
           THEN Raise("ValueError") /\ UNCHANGED <<calls, running, fs, idx, vidx, ran>>
           ELSE \E rc \in {0, 1} :
                /\ compose(restore_argv(service.name, split.words), rc)
                /\ ran' = TRUE
                /\ idx' = idx + 1
                /\ vidx' = 1
                /\ pc' = "restore_loop"
                /\ UNCHANGED <<outcome, error>>
    /\ UNCHANGED <<cmdline, previous, plan, project, command, options, args, images, cids, cfg>>

\* p = compose('exec', name, *shlex.split(cmd))
restore_exec ==
    /\ pc = "restore_exec"
    /\ LET service == cfg.services[idx]
           split == shlex_split(LabelGet(service, RestoreCmdKey))
       IN  IF ~split.ok
           THEN Raise("ValueError") /\ UNCHANGED <<calls, running, fs, idx, vidx, ran>>
           ELSE \E rc \in {0, 1} :
                /\ compose(restore_argv(service.name, split.words), rc)
                /\ IF rc # 0
                   THEN Raise("Restore exited with non-0 !") /\ UNCHANGED <<idx, vidx, ran>>
                   ELSE /\ ran' = TRUE
                        /\ idx' = idx + 1
                        /\ vidx' = 1
                        /\ pc' = "restore_loop"
                        /\ UNCHANGED <<outcome, error>>
    /\ UNCHANGED <<cmdline, previous, plan, project, command, options, args, images, cids, cfg>>

\* if not ran: yield 'No restore cmd found: no data restore !'
restore_warn ==
    /\ pc = "restore_loop"
    /\ idx > Len(cfg.services)
    /\ calls' = IF ran THEN calls
                ELSE Append(calls, Yield("No restore cmd found: no data restore !"))
    /\ pc' = "restore_final"
    /\ idx' = 1
    /\ UNCHANGED <<cmdline, previous, plan, project, running, fs, command, options, args, images, cids, cfg,
                   vidx, ran, outcome, error>>

\* The closing commands of restore() with logs shown before the services are up.
finals_logs_first == <<<<S("logs")>>, <<S("up"), S("-d")>>, <<S("ps")>>>>

finals == <<<<S("up"), S("-d")>>, <<S("logs")>>, <<S("ps")>>>>

\* compose('up', '-d'); compose('logs'); compose('ps')
restore_final ==
    /\ pc = "restore_final"
    /\ \E rc \in {0, 1} : compose(finals[idx], rc)
    /\ IF idx = Len(finals) THEN Return /\ idx' = idx
       ELSE idx' = idx + 1 /\ Pass
    /\ UNCHANGED <<cmdline, previous, plan, project, command, options, args, images, cids, cfg, vidx, ran>>

restore ==
    \/ restore_check \/ restore_copy \/ restore_pull \/ restore_down
    \/ restore_skip \/ restore_volume \/ restore_up \/ restore_sleep
    \/ restore_exec \/ restore_warn \/ restore_final

Next == call \/ apply \/ cmd \/ backup \/ restore

Spec == Init /\ [][Next]_vars

(***************************************************************************)
(* Properties.                                                             *)
(***************************************************************************)
ComposeArgv(cargs) == <<S("docker-compose")>> \o options \o cargs

\* The effects of the running process that are external commands.
IsCommand(e) == e.kind \in {"compose", "docker", "check_output"}

\* C1: apply() issues pull, build, down, up -d, logs, ps in exactly that order;
\* a step that exits non-zero is the last one issued and apply has failed; apply
\* succeeds only after all six steps exited 0.
C1_ApplyOrderFailFast ==
    command = "apply" =>
        LET steps == <<<<S("pull")>>, <<S("build")>>, <<S("down")>>, <<S("up"), S("-d")>>,
                       <<S("logs")>>, <<S("ps")>>>>
        IN  /\ Len(calls) <= 6
            /\ \A i \in 1..Len(calls) :
                /\ calls[i].kind = "compose"
                /\ calls[i].argv = ComposeArgv(steps[i])
                /\ i < Len(calls) => calls[i].rc = 0
            /\ (calls # <<>> /\ Last(calls).rc # 0) =>
                    pc = "done" /\ outcome = "failed" /\ error = "Return code: 1"
            /\ outcome = "ok" => Len(calls) = 6 /\ Last(calls).rc = 0
            /\ (pc = "done" /\ Len(calls) = 6 /\ Last(calls).rc = 0) => outcome = "ok"

\* apply() failed at down: build ran before it, up -d, logs and ps never ran.
C1_Witness ==
    /\ command = "apply"
    /\ pc = "done"
    /\ outcome = "failed"
    /\ Len(calls) = 3
    /\ calls[3].argv = ComposeArgv(<<S("down")>>)
    /\ calls[3].rc = 1

\* C2: restore() without a snapshot at ./backup/docker-compose._restore.yml ends
\* at once with './backup not found !', having run nothing, deleted nothing,
\* copied nothing, started nothing and left the option list as it was.
C2_RestoreUnavailable ==
    [][(pc = "restore_check" /\ ~exists(RestorePath)) =>
        /\ pc' = "done"
        /\ outcome' = "failed"
        /\ error' = "./backup not found !"
        /\ calls = <<>> /\ calls' = <<>>
        /\ fs' = fs
        /\ running' = running
        /\ options' = options]_vars

\* restore() has failed for want of a snapshot although ./backup exists.
C2_Witness ==
    /\ command = "restore"
    /\ pc = "done"
    /\ error = "./backup not found !"
    /\ exists(BackupDir)
    /\ ~exists(RestorePath)
    /\ running # EmptyMap

ComposeCalls == SelectSeq(calls, LAMBDA e : e.kind = "compose")

\* The subcommand of an orchestrator invocation, and the words after it.
Verb(e) == e.argv[Len(options) + 2]
Operands(e) == SubSeq(e.argv, Len(options) + 3, Len(e.argv))

Execs == SelectSeq(ComposeCalls, LAMBDA e : Verb(e) = S("exec"))

Labelled(c, key) == SelectSeq(c.services, LAMBDA s : LabelGet(s, key) # <<>>)

Count(kind) == Cardinality({i \in 1..Len(calls) : calls[i].kind = kind})

\* Container discovery and the config query of this backup() both succeeded.
DiscoveryOk ==
    /\ \A i \in 1..Len(calls) : calls[i].kind = "check_output" => calls[i].rc = 0
    /\ \E i \in 1..Len(calls) :
        calls[i].kind = "check_output" /\ calls[i].argv = ComposeArgv(<<S("config")>>)
    /\ error # "YAMLError"

\* C3 (as claimed): a backup() whose discovery and config resolution succeed and
\* whose backup commands all exit 0 runs exactly K execs, K the number of
\* services with a backup command, and writes the snapshot exactly once.
C3_ExactlyKExecsOneSnapshot ==
    (/\ command = "backup"
     /\ pc = "done"
     /\ DiscoveryOk
     /\ \A i \in 1..Len(Execs) : Execs[i].rc = 0) =>
        /\ Len(Execs) = Len(Labelled(project, BackupCmdKey))
        /\ Count("write") = 1

\* C4: backup() runs the backup commands in the order the configuration declares
\* the services; a backup command that exits non-zero is the last one run,
\* backup has failed with 'Backup exited with non-0 !', and the snapshot written
\* in this run is still on disk.
C4_BackupFailFast ==
    command = "backup" =>
        LET labelled == Labelled(project, BackupCmdKey)
        IN  /\ Len(ComposeCalls) = Len(Execs)
            /\ Len(Execs) <= Len(labelled)
            /\ \A i \in 1..Len(Execs) :
                /\ Operands(Execs[i])[1] = S(labelled[i].name)
                /\ i < Len(Execs) => Execs[i].rc = 0
            /\ (Execs # <<>> /\ Last(Execs).rc # 0) =>
                /\ pc = "done"
                /\ outcome = "failed"
                /\ error = "Backup exited with non-0 !"
                /\ Last(calls) = Last(Execs)
                /\ exists(RestorePath)
                /\ fs[Resolve(RestorePath)] = File(yaml_dump(pin(project, images)))

\* The first of two backup commands failed: the second was never run and the
\* snapshot is on disk.
C4_Witness ==
    /\ command = "backup"
    /\ error = "Backup exited with non-0 !"
    /\ Len(Execs) = 1
    /\ Len(Labelled(project, BackupCmdKey)) = 2
    /\ images # EmptyMap
    /\ exists(RestorePath)

\* C9 (as claimed): after discovery and config resolution succeeded the snapshot
\* is written with exactly the services of the resolved configuration, each with
\* the discovered image if it has a container and its configured image
\* otherwise; a discovered service the configuration does not have changes
\* nothing and does not stop the backup.
C9_SnapshotImages ==
    (command = "backup" /\ pc = "done" /\ DiscoveryOk) =>
        /\ Count("write") = 1
        /\ exists(RestorePath)
        /\ LET snap == fs[Resolve(RestorePath)].data
           IN  /\ Len(snap.services) = Len(project.services)
               /\ ServiceNames(snap) = ServiceNames(project)
               /\ \A n \in ServiceNames(project) :
                    ServiceOf(snap, n).image =
                        IF n \in DOMAIN running THEN running[n] ELSE ServiceOf(project, n).image

\* C10 (as claimed): every exec of a backup or restore command passes the words
\* of the label, split by shell-word-splitting rules, after the service name;
\* the label string is never handed to sh -c.
C10_ShellWordSplit ==
    command \in {"backup", "restore"} =>
        \A i \in 1..Len(Execs) :
            LET ops == Operands(Execs[i])
                name == CHOOSE n \in ServiceNames(cfg) : S(n) = ops[1]
                label == LabelGet(ServiceOf(cfg, name),
                                  IF command = "backup" THEN BackupCmdKey ELSE RestoreCmdKey)
            IN  /\ shlex_split(label).ok
                /\ Tail(ops) = shlex_split(label).words
                /\ Tail(ops) # <<S("sh"), S("-c"), label>>

\* C5 (as claimed): for a volume of a service with a restore command, a host
\* part that contains 'backup' is left alone, any other host part with a path
\* separator is deleted recursively, and any plain name is removed as the named
\* volume <project>_<service>.
C5_VolumeClassification ==
    [][(/\ pc = "restore_loop"
        /\ idx <= Len(cfg.services)
        /\ HasRestoreCmd(cfg.services[idx])
        /\ vidx <= Len(cfg.services[idx].volumes)) =>
            LET name == cfg.services[idx].name
                host == Split(cfg.services[idx].volumes[vidx], ":")[1]
                below == {q \in DOMAIN fs : IsPrefix(Resolve(host), q)}
            IN  /\ Contains(host, S("backup")) /\ Contains(host, S("/")) =>
                    fs' = fs /\ calls' = calls
                /\ ~Contains(host, S("backup")) /\ Contains(host, S("/")) =>
                    /\ calls' = Append(calls, Effect("rmtree", <<host>>, 0))
                    /\ DOMAIN fs' = DOMAIN fs \ below
                /\ ~Contains(host, S("/")) =>
                    /\ fs' = fs
                    /\ \E rc \in {0, 1} :
                        calls' = Append(calls, Effect("docker",
                            <<S("docker"), S("volume"), S("rm"), <<"proj", "_", name>>>>, rc))
      ]_vars

\* C6 (as claimed): whatever volumes the services declare, a restore() that
\* found the snapshot never deletes ./backup nor the snapshot in it.
C6_BackupNeverDeleted ==
    (command = "restore" /\ pc # "restore_check" /\ error # "./backup not found !") =>
        /\ exists(BackupDir)
        /\ exists(RestorePath)

\* C7 (as claimed): a finished command has failed if and only if one of the
\* external commands it ran exited non-zero or the snapshot restore() needs was
\* missing.
C7_ExitStatus ==
    (pc = "done" /\ command # "help") =>
        (outcome = "failed" <=>
            \/ \E i \in 1..Len(calls) : IsCommand(calls[i]) /\ calls[i].rc # 0
            \/ error = "./backup not found !")

\* C8 (as claimed): after a successful backup() followed by a successful
\* restore(), the running services are those of the configuration, each with
\* the image the snapshot pinned.
C8_RoundTrip ==
    (/\ command = "restore"
     /\ pc = "done"
     /\ outcome = "ok"
     /\ previous = [command |-> "backup", outcome |-> "ok", error |-> ""]) =>
        /\ exists(RestorePath)
        /\ DOMAIN running = ServiceNames(project)
        /\ \A n \in ServiceNames(project) :
            running[n] = ServiceOf(fs[Resolve(RestorePath)].data, n).image


(***************************************************************************)
(* The command line of the process: what was typed before and after the    *)
(* command word.                                                           *)
(***************************************************************************)
VerbAt == CHOOSE i \in 1..Len(cmdline) :
            /\ cmdline[i] = S(command)
            /\ \A j \in 1..(i - 1) : cmdline[j] # S(command)

Before == SubSeq(cmdline, 1, VerbAt - 1)

After == SubSeq(cmdline, VerbAt + 1, Len(cmdline))

\* The options typed before the command, each -f / --file value replaced by
\* the local name of the file.
RECURSIVE Localised(_)
Localised(pre) ==
    IF pre = <<>> THEN <<>>
    ELSE IF Head(pre) = S("-f") /\ Len(pre) >= 2 THEN
        <<S("-f"), get(pre[2])>> \o Localised(SubSeq(pre, 3, Len(pre)))
    ELSE IF StartsWith(Head(pre), S("--file")) /\ Contains(Head(pre), S("=")) THEN
        <<S("-f"), get(Split(Head(pre), "=")[2])>> \o Localised(Tail(pre))
    ELSE <<Head(pre)>> \o Localised(Tail(pre))

IsPassthrough == command \in compose_commands /\ cmdline # <<>>

\* C11: a passthrough process that has ended made exactly one orchestrator
\* invocation, composed as docker-compose, the options typed before the verb
\* (file values localised), the verb, then every token typed after the verb,
\* unchanged and in order -- a "-f" after the verb included.
C11_PassthroughComposition ==
    (IsPassthrough /\ pc = "done") =>
        /\ Len(calls) = 1
        /\ calls[1].kind = "compose"
        /\ calls[1].argv = <<S("docker-compose")>> \o Localised(Before)
                              \o <<S(command)>> \o After

\* The same composition for every command line with no -f after the verb.
C11_ComposedWithoutTrailingFile ==
    (IsPassthrough /\ pc = "done" /\ \A i \in 1..Len(After) : After[i] # S("-f")) =>
        /\ Len(calls) = 1
        /\ calls[1].kind = "compose"
        /\ calls[1].argv = <<S("docker-compose")>> \o Localised(Before)
                              \o <<S(command)>> \o After

\* A passthrough process ended with a -f typed after the verb.
C11_Witness ==
    /\ IsPassthrough /\ pc = "done"
    /\ \E i \in 1..Len(After) : After[i] = S("-f")


Warned(msg) == \E i \in 1..Len(calls) : calls[i] = Yield(msg)

\* C12 (as claimed): a backup() whose discovery and config resolution succeed
\* emits 'No $backup_cmd found: no data backup !' exactly when no service of the
\* configuration has a backup command; it then runs no exec, writes the
\* snapshot and ends without error.
C12_WarningIffNoBackupCmd ==
    (command = "backup" /\ pc = "done" /\ DiscoveryOk) =>
        LET none == Labelled(project, BackupCmdKey) = <<>>
        IN  /\ Warned("No $backup_cmd found: no data backup !") <=> none
            /\ none => /\ Execs = <<>>
                       /\ Count("write") = 1
                       /\ exists(RestorePath)
                       /\ outcome = "ok"

\* The same, for every backup() that the pinning loop did not end.
C12_WarningOutsideKeyError ==
    error # "KeyError" => C12_WarningIffNoBackupCmd

\* backup() of a project with services but no backup command has ended.
C12_Witness ==
    /\ command = "backup" /\ pc = "done" /\ DiscoveryOk
    /\ project.services # <<>>
    /\ Labelled(project, BackupCmdKey) = <<>>


\* An effect without its exit code.
Step(kind, argv) == [kind |-> kind, argv |-> argv]

Steps(log) == [i \in 1..Len(log) |-> Step(log[i].kind, log[i].argv)]

\* What the per-service steps of restore() are for one labelled service: the
\* reset of each of its volumes, up -d of that service, the settle wait, the
\* exec of its restore command.
ServiceSteps(s) ==
    LET reset == SelectSeq(s.volumes, LAMBDA v : VolumeAction(v) # "continue")
    IN  [i \in 1..Len(reset) |->
            IF VolumeAction(reset[i]) = "rmtree"
            THEN Step("rmtree", <<Split(reset[i], ":")[1]>>)
            ELSE Step("docker", <<S("docker"), S("volume"), S("rm"), VolumeName(s.name)>>)]
        \o <<Step("compose", ComposeArgv(<<S("up"), S("-d"), S(s.name)>>)),
             Step("sleep", <<>>),
             Step("compose", ComposeArgv(<<S("exec"), S(s.name)>>
                                \o shlex_split(LabelGet(s, RestoreCmdKey)).words))>>

RECURSIVE LoopSteps(_)
LoopSteps(services) ==
    IF services = <<>> THEN <<>>
    ELSE ServiceSteps(Head(services)) \o LoopSteps(Tail(services))

\* restore() is past copy, pull and down: the snapshot is parsed into cfg.
InRestoreLoop == command = "restore" /\ Len(calls) >= 3

\* The effects of restore() after copy, pull and down.
AfterDown == SubSeq(calls, 4, Len(calls))

IsExec(e) == e.kind = "compose" /\ Verb(e) = S("exec")

IsUpOf(e) == e.kind = "compose" /\ Verb(e) = S("up") /\ Len(Operands(e)) = 2

\* The closing invocations of restore(): up -d without a service, logs, ps.
Closing == <<<<S("up"), S("-d")>>, <<S("logs")>>, <<S("ps")>>>>

IsClosing(e) ==
    e.kind = "compose" /\ \E k \in 1..Len(Closing) : e.argv = ComposeArgv(Closing[k])

C13_WitnessFirst ==
    /\ InRestoreLoop
    /\ Len(Labelled(cfg, RestoreCmdKey)) = 2
    /\ IsExec(Last(calls)) /\ Last(calls).rc # 0
    /\ Len(SelectSeq(calls, IsExec)) = 1


ClosingCalls == SelectSeq(AfterDown, IsClosing)

\* C14: restore() invokes up -d (no service), logs, ps, in that order, only
\* once every service with a restore command was brought up and its restore
\* command exited 0 -- with no such service, after the warning --; a restore
\* that ends well has made all three; after a failed per-service up or restore
\* command none of the three is ever made.
C14_ClosingOnlyAfterFullSuccess ==
    InRestoreLoop =>
        LET labelled == Labelled(cfg, RestoreCmdKey)
            execs == SelectSeq(AfterDown, IsExec)
            ups == SelectSeq(AfterDown, IsUpOf)
        IN  /\ \A k \in 1..Len(ClosingCalls) : ClosingCalls[k].argv = ComposeArgv(Closing[k])
            /\ ClosingCalls # <<>> =>
                /\ Len(execs) = Len(labelled)
                /\ Len(ups) = Len(labelled)
                /\ \A k \in 1..Len(execs) : execs[k].rc = 0 /\ ups[k].rc = 0
                /\ \A k \in 1..Len(execs) :
                        /\ Operands(execs[k])[1] = S(labelled[k].name)
                        /\ Operands(ups[k])[2] = S(labelled[k].name)
                /\ labelled = <<>> =>
                        AfterDown[1] = Yield("No restore cmd found: no data restore !")
                /\ IsClosing(Last(calls))
            /\ (pc = "done" /\ outcome = "ok") => Len(ClosingCalls) = 3
            /\ (\E k \in 1..Len(AfterDown) :
                    (IsExec(AfterDown[k]) \/ IsUpOf(AfterDown[k])) /\ AfterDown[k].rc # 0)
                => ClosingCalls = <<>>

\* restore() has made the three closing invocations after restoring two services.
C14_Witness ==
    /\ InRestoreLoop
    /\ Len(Labelled(cfg, RestoreCmdKey)) = 2
    /\ Len(ClosingCalls) = 3
    /\ pc = "done"

\* restore() of a snapshot without any restore command: the warning, then the
\* three closing invocations.
C14_WitnessWarned ==
    /\ InRestoreLoop
    /\ cfg.services # <<>>
    /\ Warned("No restore cmd found: no data restore !")
    /\ Len(ClosingCalls) = 3

\* A per-service up failed and restore() has ended.
C14_WitnessFailed ==
    /\ InRestoreLoop /\ pc = "done"
    /\ IsUpOf(Last(calls)) /\ Last(calls).rc # 0


\* The effects one step adds to the log.
Added == SubSeq(calls', Len(calls) + 1, Len(calls'))

Unlabelled(c, key) == SelectSeq(c.services, LAMBDA s : LabelGet(s, key) = <<>>)

\* The host directory h is one that the loop deletes for a service with a
\* restore command: a bind mount of that service is h or a directory above h.
ResetByLabelled(h) ==
    \E t \in {Labelled(cfg, RestoreCmdKey)[k] : k \in 1..Len(Labelled(cfg, RestoreCmdKey))} :
        \E j \in 1..Len(t.volumes) :
            /\ VolumeAction(t.volumes[j]) = "rmtree"
            /\ IsPrefix(Resolve(HostPart(t.volumes[j])), Resolve(h))

\* What the per-service loop acts on when it is at the service s.
ActsOn(s, e) ==
    \/ e.kind = "compose" /\ Len(Operands(e)) >= 1 /\ Last(SubSeq(e.argv, 1, Len(options) + 4)) = S(s.name)
       /\ Verb(e) = S("up")
    \/ e.kind = "compose" /\ Verb(e) = S("exec") /\ Operands(e)[1] = S(s.name)
    \/ e.kind = "docker" /\ Last(e.argv) = VolumeName(s.name)

\* A step of the per-service loop leaves the service s alone: no up, exec or
\* volume removal names it, no effect at all is made while the loop is at it,
\* and each of its bind-mounted host directories, unless `shared` lets it go,
\* keeps everything it holds.
LeftAlone(s, shared(_)) ==
    /\ \A k \in 1..Len(Added) : ~ActsOn(s, Added[k])
    /\ (idx <= Len(cfg.services) /\ cfg.services[idx] = s /\ pc = "restore_loop") =>
            calls' = calls /\ fs' = fs /\ running' = running
    /\ \A j \in 1..Len(s.volumes) :
        (IsBindMount(s.volumes[j]) /\ ~shared(HostPart(s.volumes[j]))) =>
            \A q \in DOMAIN fs :
                IsPrefix(Resolve(HostPart(s.volumes[j])), q) => q \in DOMAIN fs' /\ fs'[q] = fs[q]

InLoop == command = "restore" /\ pc \in {"restore_loop", "restore_sleep", "restore_exec"}

NeverShared(h) == FALSE

Rerun ==
    /\ command = "restore"
    /\ previous.command = "restore"
    /\ previous.error \in {"Start non-0 !", "Restore exited with non-0 !"}

AllExitZero == \A i \in 1..Len(calls) : IsCommand(calls[i]) => calls[i].rc = 0

\* C16 (as claimed): a restore() that follows a restore() failed at a
\* per-service up or restore command, and whose external commands all exit 0,
\* passes the snapshot precondition, resets and restores every labelled service
\* again and ends well with every service of the snapshot running its pinned
\* image; it never stops because a host directory or volume is already gone.
C16_RestoreRerunnable ==
    (Rerun /\ pc = "done" /\ AllExitZero) =>
        /\ outcome = "ok"
        /\ error = ""
        /\ InRestoreLoop
        /\ SubSeq(Steps(AfterDown), 1, Len(LoopSteps(Labelled(cfg, RestoreCmdKey))))
                = LoopSteps(Labelled(cfg, RestoreCmdKey))
        /\ Len(ClosingCalls) = 3

\* The same for the re-runs that do not stop at a directory the first run
\* deleted.
C16_RerunOutsideMissingDirectory ==
    error \notin {"FileNotFoundError", "./backup not found !", "ValueError"} => C16_RestoreRerunnable

\* A second restore() after a failed one has ended, all its commands exited 0.
C16_Witness ==
    /\ Rerun /\ pc = "done" /\ AllExitZero
    /\ Labelled(cfg, RestoreCmdKey) # <<>>
    /\ outcome = "ok"


\* The snapshot file as it is on disk, <<>> when there is none.
SnapshotOn(f) ==
    IF Resolve(RestorePath) \in DOMAIN f THEN <<f[Resolve(RestorePath)]>> ELSE <<>>

\* The last effect of the log is a discovery or config query that failed:
\* non-zero exit, or output that does not parse.
QueryFailed(log, err) ==
    /\ log # <<>>
    /\ Last(log).kind = "check_output"
    /\ Last(log).rc # 0 \/ err \in {"YAMLError", "JSONDecodeError"}

\* C17: up to the end of container discovery and of the config query, backup()
\* leaves the snapshot file as it was (or absent) and runs nothing in any
\* container; a failed discovery or config query (non-zero exit or unparseable
\* output) ends backup() there, failed, before any snapshot write.
C17_DiscoveryFailureKeepsSnapshot ==
    [][(command = "backup" /\ pc \in {"backup_mkdir", "backup_ps", "backup_inspect"}) =>
        /\ SnapshotOn(fs') = SnapshotOn(fs)
        /\ \A k \in 1..Len(calls') : calls'[k].kind \notin {"compose", "write"}
        /\ (calls' # calls /\ QueryFailed(calls', error')) =>
            /\ pc' = "done"
            /\ outcome' = "failed"
            /\ error' \in {"CalledProcessError", "YAMLError", "JSONDecodeError"}
      ]_vars

\* backup() ended at a config query with unparseable output; the snapshot of an
\* earlier backup is on disk.
C17_Witness ==
    /\ command = "backup"
    /\ pc = "done"
    /\ error = "YAMLError"
    /\ SnapshotOn(fs) # <<>>
    /\ running # EmptyMap

\* backup() ended at a failed container discovery, no snapshot on disk.
C17_WitnessDiscovery ==
    /\ command = "backup"
    /\ pc = "done"
    /\ error = "CalledProcessError"
    /\ Last(calls).argv = <<<<"docker-compose", " ", "ps", " ", "-q">>>>
    /\ SnapshotOn(fs) = <<>>


\* The indices of the -f options of an invocation, before its subcommand.
FileOptionsAt(e) == {j \in 2..(Len(options) + 1) : e.argv[j] = S("-f")}

\* restore() found the snapshot and has copied it.
PastCopy ==
    /\ command = "restore"
    /\ pc \notin {"restore_check", "restore_copy"}
    /\ error # "./backup not found !"

\* C18: once restore() has copied the snapshot, the option list is what the
\* operator gave followed by one pair -f ./docker-compose._restore.yml, that
\* pair occurs once, and every orchestrator invocation of the run -- pull, down,
\* each up, each exec, logs, ps -- is docker-compose, that option list, then the
\* subcommand: the snapshot copy is its last -f before the subcommand.
C18_RestoreFileOption ==
    /\ (command = "restore" /\ pc \in {"restore_check", "restore_copy"}) =>
            options = Localised(Before) /\ calls = <<>>
    /\ PastCopy =>
        /\ options = Localised(Before) \o <<S("-f"), LocalRestoreOpt>>
        /\ Cardinality({j \in 1..Len(options) : options[j] = LocalRestoreOpt}) = 1
        /\ \A k \in 1..Len(calls) :
            calls[k].kind = "compose" =>
                /\ Len(calls[k].argv) >= Len(options) + 2
                /\ SubSeq(calls[k].argv, 1, Len(options) + 1) = <<S("docker-compose")>> \o options
                /\ Verb(calls[k]) \in {S("pull"), S("down"), S("up"), S("exec"), S("logs"), S("ps")}
                /\ LET last == CHOOSE j \in FileOptionsAt(calls[k]) :
                                    \A m \in FileOptionsAt(calls[k]) : m <= j
                   IN  /\ calls[k].argv[last + 1] = LocalRestoreOpt
                       /\ last + 2 = Len(options) + 2

\* restore() typed with -f prod.yml has ended after pull, down, an up, an exec
\* and the closing invocations.
C18_Witness ==
    /\ PastCopy /\ pc = "done" /\ outcome = "ok"
    /\ Before = <<S("-f"), S("prod.yml")>>
    /\ Len(SelectSeq(calls, IsExec)) >= 1
    /\ Len(ClosingCalls) = 3


IsVerb(e, verb) == e.kind = "compose" /\ Verb(e) = S(verb)

\* An effect of the per-service loop: a volume deletion, a named-volume
\* removal, an up of one service, the settle wait, an exec.
IsLoopEffect(e) == e.kind \in {"rmtree", "docker", "sleep"} \/ IsUpOf(e) \/ IsExec(e)

\* C19: in restore(), whatever the loop does -- delete a host directory, remove
\* a named volume, bring a service up -- comes after pull and then down were
\* both invoked and had returned, in that order, right after the copy.
C19_PullDownBeforeReset ==
    command = "restore" =>
        /\ Len(calls) >= 2 => IsVerb(calls[2], "pull") /\ Operands(calls[2]) = <<>>
        /\ Len(calls) >= 3 => IsVerb(calls[3], "down") /\ Operands(calls[3]) = <<>>
        /\ \A k \in 1..Len(calls) : IsLoopEffect(calls[k]) => k > 3

\* restore() has deleted a host directory and removed a named volume.
C19_Witness ==
    /\ command = "restore"
    /\ Count("rmtree") >= 1
    /\ Count("docker") >= 1
    /\ IsVerb(calls[3], "down")

\* C20: an up -d <service> of restore() that exits non-zero is the last effect
\* of the process, which has failed with 'Start non-0 !': no settle wait and no
\* restore command for that service, nothing for the services after it, no
\* closing up, logs or ps; the resets of that service's volumes were made
\* before, its deleted host directories are gone.
C20_UpFailureFailFast ==
    (command = "restore" /\ Len(calls) >= 3) =>
        \A k \in 4..Len(calls) :
            (IsUpOf(calls[k]) /\ calls[k].rc # 0) =>
                LET s == ServiceOf(cfg, Operands(calls[k])[2][1])
                    resets == SubSeq(ServiceSteps(s), 1, Len(ServiceSteps(s)) - 3)
                IN  /\ k = Len(calls)
                    /\ pc = "done"
                    /\ outcome = "failed"
                    /\ error = "Start non-0 !"
                    /\ ClosingCalls = <<>>
                    /\ Steps(AfterDown) = SubSeq(LoopSteps(Labelled(cfg, RestoreCmdKey)), 1, k - 3)
                    /\ SubSeq(Steps(calls), k - Len(resets), k - 1) = resets
                    /\ \A j \in 1..Len(resets) :
                            resets[j].kind = "rmtree" => ~exists(resets[j].argv[1])

\* The up of the first of two labelled services failed after its host directory
\* was deleted and its named volume removed.
C20_Witness ==
    /\ command = "restore" /\ Len(calls) >= 6
    /\ IsUpOf(Last(calls)) /\ Last(calls).rc # 0
    /\ Len(Labelled(cfg, RestoreCmdKey)) = 2
    /\ Operands(Last(calls))[2] = S(Labelled(cfg, RestoreCmdKey)[1].name)
    /\ calls[Len(calls) - 1].kind \in {"rmtree", "docker"}
    /\ calls[Len(calls) - 2].kind \in {"rmtree", "docker"}

====
